---- MODULE Spec2Model ----
(***************************************************************************)
(* Tabulae: the tree-walking interpreter of src/Source/tabulae.py.         *)
(*                                                                         *)
(* The interpreter object (vars, should_exit, current_file, call_stack)    *)
(* is driven by the REPL loop of main(): each input line is one            *)
(* run(code) invocation whose top-level statements are evaluated in        *)
(* order.  Python objects that are shared by reference (the table dicts    *)
(* bound in self.vars) live in an explicit heap, so that the shallow       *)
(* dict.copy() snapshots of the code keep their aliasing.                  *)
(***************************************************************************)
EXTENDS Integers, Sequences, FiniteSets, TLC

(***************************************************************************)
(* Bounds of the model.                                                    *)
(***************************************************************************)
MaxSteps == 3      \* statements evaluated at top level in one behaviour
MaxProg == 3       \* statements in one source text given to run()
MaxFileLen == 1    \* length of the enumerated contents of "a.tadb"
MaxOperands == 3   \* operands of an arithmetic expression
MaxChars == 4      \* characters of a text given to the lexer alone
RecursionLimit == 3  \* nested file evaluations Python's recursion limit allows
MaxKeySteps == 4   \* statements evaluated in a behaviour that only edits a table

(***************************************************************************)
(* Python values.  int, str, None and references to table dicts.           *)
(***************************************************************************)
I(n) == [t |-> "int", i |-> n]
S(s) == [t |-> "str", s |-> s]
None == [t |-> "none"]
Ref(r) == [t |-> "table", r |-> r]

IsInt(v) == v.t = "int"
IsStr(v) == v.t = "str"
IsRef(v) == v.t = "table"

\* Code-point order of the string constants the model uses (str.__lt__).
StrRank(s) ==
    LET order == <<"", "1", "2", "7", "a", "aa", "b", "k", "v", "z">>
    IN  CHOOSE i \in 1..Len(order) : order[i] = s

\* Results of evaluating an expression: a value, or the exception raised.
Val(v) == [ok |-> TRUE, v |-> v]
Raise(e) == [ok |-> FALSE, e |-> e]

(***************************************************************************)
(* AST nodes (classes NumberNode .. ProgramNode).                          *)
(***************************************************************************)
NumberNode(n) == [node |-> "Number", value |-> n]
StringNode(s) == [node |-> "String", value |-> s]
IdentifierNode(n) == [node |-> "Identifier", name |-> n]
BinaryOpNode(l, op, r) == [node |-> "BinaryOp", left |-> l, op |-> op, right |-> r]
ComparisonOpNode(l, op, r) == [node |-> "ComparisonOp", left |-> l, op |-> op, right |-> r]
NoCondition == [node |-> "NoCondition"]

AssignmentNode(id, e) == [node |-> "Assignment", identifier |-> id, expr |-> e]
PrintNode(e) == [node |-> "Print", expr |-> e]
MakeTableNode(n, cols) == [node |-> "MakeTable", var_name |-> n, columns |-> cols]
EditRowNode(n, vals) == [node |-> "EditRow", table_name |-> n, values |-> vals]
EditCellNode(n, c, k, v) ==
    [node |-> "EditCell", table_name |-> n, column_expr |-> c,
     row_id_expr |-> k, value_expr |-> v]
QueryNode(n, cond) == [node |-> "Query", table_name |-> n, condition |-> cond]
ExportCSVNode(n, f) == [node |-> "ExportCSV", table_name |-> n, filename |-> f]
ImportCSVNode(f, n) == [node |-> "ImportCSV", filename |-> f, table_name |-> n]
ImportNode(f) == [node |-> "Import", filename |-> f]
RunAsFileNode(f) == [node |-> "RunAsFile", filename |-> f]

(***************************************************************************)
(* dict.get: the value bound to a name, None when the name is unbound.     *)
(***************************************************************************)
Get(vars, name) == IF name \in DOMAIN vars THEN vars[name] ELSE None

\* dict.__setitem__ and dict.update on self.vars.
Put(vars, name, v) == [n \in (DOMAIN vars) \cup {name} |-> IF n = name THEN v ELSE vars[n]]
\* A dict.update in which the names already bound keep their values.
UpdateKeep(vars, ctx) == [n \in (DOMAIN vars) \cup (DOMAIN ctx) |->
                            IF n \in DOMAIN vars THEN vars[n] ELSE ctx[n]]

\* dict.update: the names of ctx take its values.
Update(vars, ctx) == [n \in (DOMAIN vars) \cup (DOMAIN ctx) |->
                        IF n \in DOMAIN ctx THEN ctx[n] ELSE vars[n]]

\* Python truthiness of a value (`if not table`): None, 0 and "" are falsy;
\* a table dict always has its two keys and is truthy.
Truthy(v) == CASE v = None -> FALSE
               [] IsInt(v) -> v.i # 0
               [] IsStr(v) -> v.s # ""
               [] OTHER -> TRUE

\* == on Python values: equal kinds and equal contents; two table dicts are
\* equal when their columns and data are equal.
PyEq(heap, a, b) ==
    CASE a.t # b.t -> FALSE
      [] IsRef(a) -> heap[a.r] = heap[b.r]
      [] OTHER -> a = b

RECURSIVE StrRepeat(_, _)
StrRepeat(s, n) == IF n <= 0 THEN "" ELSE s \o StrRepeat(s, n - 1)

\* A division that rounds toward zero; the other operators as they are.
BinaryOpTruncate(op, l, r) ==
    IF op = "DIVIDE" /\ IsInt(l) /\ IsInt(r) /\ r.i # 0
    THEN LET a == IF l.i < 0 THEN 0 - l.i ELSE l.i
             b == IF r.i < 0 THEN 0 - r.i ELSE r.i
         IN  Val(I(IF (l.i < 0) = (r.i < 0) THEN a \div b ELSE 0 - (a \div b)))
    ELSE CASE op = "PLUS" /\ IsInt(l) /\ IsInt(r) -> Val(I(l.i + r.i))
           [] op = "MINUS" /\ IsInt(l) /\ IsInt(r) -> Val(I(l.i - r.i))
           [] op = "MULTIPLY" /\ IsInt(l) /\ IsInt(r) -> Val(I(l.i * r.i))
           [] op = "DIVIDE" /\ IsInt(l) /\ IsInt(r) -> Raise("ZeroDivisionError")
           [] OTHER -> Raise("TypeError")

\* visit_BinaryOpNode on two evaluated operands.
BinaryOp(op, l, r) ==
    CASE op = "PLUS" ->
           IF IsInt(l) /\ IsInt(r) THEN Val(I(l.i + r.i))
           ELSE IF IsStr(l) /\ IsStr(r) THEN Val(S(l.s \o r.s))
           ELSE Raise("TypeError")
      [] op = "MINUS" ->
           IF IsInt(l) /\ IsInt(r) THEN Val(I(l.i - r.i)) ELSE Raise("TypeError")
      [] op = "MULTIPLY" ->
           IF IsInt(l) /\ IsInt(r) THEN Val(I(l.i * r.i))
           ELSE IF IsStr(l) /\ IsInt(r) THEN Val(S(StrRepeat(l.s, r.i)))
           ELSE IF IsInt(l) /\ IsStr(r) THEN Val(S(StrRepeat(r.s, l.i)))
           ELSE Raise("TypeError")
      [] op = "DIVIDE" ->
           IF IsInt(l) /\ IsInt(r)
           THEN IF r.i = 0 THEN Raise("ZeroDivisionError")
                ELSE IF r.i > 0 THEN Val(I(l.i \div r.i))
                ELSE Val(I((0 - l.i) \div (0 - r.i)))
           ELSE Raise("TypeError")

\* visit_ComparisonOpNode on two evaluated operands; the result is a bool.
Ordered(l, r) == (IsInt(l) /\ IsInt(r)) \/ (IsStr(l) /\ IsStr(r))
Less(l, r) == IF IsInt(l) THEN l.i < r.i ELSE StrRank(l.s) < StrRank(r.s)
ComparisonOp(heap, op, l, r) ==
    CASE op = "EQUAL" -> [ok |-> TRUE, b |-> PyEq(heap, l, r)]
      [] op = "NOTEQUAL" -> [ok |-> TRUE, b |-> ~PyEq(heap, l, r)]
      [] ~Ordered(l, r) -> Raise("TypeError")
      [] op = "GREATER" -> [ok |-> TRUE, b |-> Less(r, l)]
      [] op = "LESS" -> [ok |-> TRUE, b |-> Less(l, r)]
      [] op = "GREATEREQUAL" -> [ok |-> TRUE, b |-> ~Less(l, r)]
      [] op = "LESSEQUAL" -> [ok |-> TRUE, b |-> ~Less(r, l)]

\* visit_NumberNode, visit_StringNode, visit_IdentifierNode and the
\* recursive descent of visit_BinaryOpNode.
RECURSIVE Visit(_, _)
Visit(vars, e) ==
    CASE e.node = "Number" -> Val(I(e.value))
      [] e.node = "String" -> Val(S(e.value))
      [] e.node = "Identifier" -> Val(Get(vars, e.name))
      [] e.node = "BinaryOp" ->
           LET l == Visit(vars, e.left) IN
           IF ~l.ok THEN l
           ELSE LET r == Visit(vars, e.right) IN
                IF ~r.ok THEN r ELSE BinaryOp(e.op, l.v, r.v)

\* visit_ComparisonOpNode: both operands, then the comparison.
VisitComparison(vars, heap, c) ==
    LET l == Visit(vars, c.left) IN
    IF ~l.ok THEN l
    ELSE LET r == Visit(vars, c.right) IN
         IF ~r.ok THEN r ELSE ComparisonOp(heap, c.op, l.v, r.v)

(***************************************************************************)
(* The interpreter object and what it acts on.  A record `st` holds        *)
(* self.vars, the heap of table dicts, the text emitted by print(),        *)
(* self.should_exit, self.call_stack, self.current_file, the CSV files on  *)
(* disk, and `exc`: the exception propagating out of the handler (<<>>     *)
(* when it returned normally), outermost wrapper first.                    *)
(***************************************************************************)
Interactive == "<interactive>"

Throw(st, e) == [st EXCEPT !.exc = <<e>>]
Failed(st) == st.exc # <<>>
Emit(st, line) == [st EXCEPT !.out = Append(@, line)]

\* A table dict {'columns': [...], 'data': [...]}.
Table(cols, data) == [columns |-> cols, data |-> data]

\* A new dict object is allocated at the next free heap address.
Alloc(st, name, tbl) ==
    [st EXCEPT !.heap = Append(@, tbl),
               !.vars = Put(@, name, Ref(Len(st.heap) + 1))]

\* [self.visit(expr) for expr in exprs]: the values, or the first exception.
RECURSIVE VisitAll(_, _)
VisitAll(vars, exprs) ==
    IF exprs = <<>> THEN [ok |-> TRUE, vs |-> <<>>]
    ELSE LET h == Visit(vars, Head(exprs)) IN
         IF ~h.ok THEN h
         ELSE LET t == VisitAll(vars, Tail(exprs)) IN
              IF ~t.ok THEN t ELSE [ok |-> TRUE, vs |-> <<h.v>> \o t.vs]

\* The row scan shared by visit_EditRowNode and visit_EditCellNode:
\*   for i, row in enumerate(data): if row[0] == row_id: ...; break
\* The result is the index of the first row whose first field equals the
\* key, 0 when the loop ends without a match, and -1 when row[0] raises
\* IndexError on a row without fields before a match is found.
RECURSIVE ScanRowsFrom(_, _, _, _)
ScanRowsFrom(heap, data, row_id, i) ==
    IF i > Len(data) THEN 0
    ELSE IF Len(data[i]) = 0 THEN -1
    ELSE IF PyEq(heap, data[i][1], row_id) THEN i
    ELSE ScanRowsFrom(heap, data, row_id, i + 1)

\* visit_MakeTableNode
VisitMakeTable(st, node) == Alloc(st, node.var_name, Table(node.columns, <<>>))

\* visit_AssignmentNode
VisitAssignment(st, node) ==
    LET r == Visit(st.vars, node.expr) IN
    IF ~r.ok THEN Throw(st, r.e)
    ELSE [st EXCEPT !.vars = Put(@, node.identifier, r.v)]

\* visit_PrintNode
VisitPrint(st, node) ==
    LET r == Visit(st.vars, node.expr) IN
    IF ~r.ok THEN Throw(st, r.e)
    ELSE IF IsRef(r.v)
         THEN Emit(st, [line |-> "Table", name |-> node.expr.name,
                        columns |-> st.heap[r.v.r].columns,
                        rows |-> st.heap[r.v.r].data])
         ELSE Emit(st, [line |-> "print", value |-> r.v])

\* An EditRow that appends the row without looking for its key.
EditRowStoreAppend(st, r, values) ==
    [st EXCEPT !.heap[r].data = Append(@, values)]

\* The upsert of visit_EditRowNode on the table dict at address r.
EditRowStore(st, r, values) ==
    LET data == st.heap[r].data
        i == ScanRowsFrom(st.heap, data, values[1], 1)
    IN  IF i = -1 THEN Throw(st, "IndexError")
        ELSE IF i > 0
             THEN [st EXCEPT !.heap[r].data[i] = values]
             ELSE [st EXCEPT !.heap[r].data = Append(@, values)]

\* visit_EditRowNode
VisitEditRow(st, node) ==
    LET table == Get(st.vars, node.table_name) IN
    IF ~Truthy(table) THEN Throw(st, "NameError")
    ELSE LET vals == VisitAll(st.vars, node.values) IN
         IF ~vals.ok THEN Throw(st, vals.e)
         ELSE IF ~IsRef(table) THEN Throw(st, "TypeError")
         ELSE IF Len(vals.vs) # Len(st.heap[table.r].columns) THEN Throw(st, "ValueError")
         ELSE IF Len(vals.vs) = 0 THEN Throw(st, "IndexError")
         ELSE EditRowStore(st, table.r, vals.vs)

\* list.index: the first position of an element.
IndexOf(seq, x) == CHOOSE i \in 1..Len(seq) : seq[i] = x /\ \A j \in 1..(i - 1) : seq[j] # x

\* An EditCell that inserts a row for a key it does not find.
EditCellStoreInsert(st, r, col_index, row_id, new_value) ==
    LET data == st.heap[r].data
        i == ScanRowsFrom(st.heap, data, row_id, 1)
    IN  IF i = -1 THEN Throw(st, "IndexError")
        ELSE IF i = 0
             THEN [st EXCEPT !.heap[r].data =
                     Append(@, [j \in 1..Len(st.heap[r].columns) |->
                                  IF j = 1 THEN row_id
                                  ELSE IF j = col_index THEN new_value ELSE None])]
        ELSE IF col_index > Len(data[i]) THEN Throw(st, "IndexError")
        ELSE [st EXCEPT !.heap[r].data[i][col_index] = new_value]

\* The in-place cell write of visit_EditCellNode on the table dict at r.
EditCellStore(st, r, col_index, row_id, new_value) ==
    LET data == st.heap[r].data
        i == ScanRowsFrom(st.heap, data, row_id, 1)
    IN  IF i = -1 THEN Throw(st, "IndexError")
        ELSE IF i = 0 THEN Throw(st, "ValueError")
        ELSE IF col_index > Len(data[i]) THEN Throw(st, "IndexError")
        ELSE [st EXCEPT !.heap[r].data[i][col_index] = new_value]

\* visit_EditCellNode
VisitEditCell(st, node) ==
    LET table == Get(st.vars, node.table_name) IN
    IF ~Truthy(table) THEN Throw(st, "NameError")
    ELSE LET args == VisitAll(st.vars, <<node.column_expr, node.row_id_expr, node.value_expr>>) IN
         IF ~args.ok THEN Throw(st, args.e)
         ELSE IF ~IsStr(args.vs[1]) THEN Throw(st, "TypeError")
         ELSE IF ~IsRef(table) THEN Throw(st, "TypeError")
         ELSE LET columns == st.heap[table.r].columns IN
              IF \A j \in 1..Len(columns) : columns[j] # args.vs[1].s
              THEN Throw(st, "ValueError")
              ELSE EditCellStore(st, table.r, IndexOf(columns, args.vs[1].s),
                                 args.vs[2], args.vs[3])

\* dict(zip(columns, row)): pairs up to the shorter length, a repeated
\* column name keeping its last field.
ZipContext(columns, row) ==
    LET n == IF Len(columns) < Len(row) THEN Len(columns) ELSE Len(row)
        last(c) == CHOOSE i \in 1..n : columns[i] = c /\ \A j \in (i + 1)..n : columns[j] # c
    IN  [c \in {columns[i] : i \in 1..n} |-> row[last(c)]]

\* A Query that keeps the row's bindings instead of restoring.
QueryRestoreLeak(original_vars, updated_vars) == updated_vars

\* The `finally: self.vars = original_vars` of visit_QueryNode.
QueryRestore(original_vars, updated_vars) == original_vars

\* The per-row loop of visit_QueryNode from row i on; `acc` carries
\* self.vars and the results so far, and the exception if one is raised.
RECURSIVE QueryRows(_, _, _, _, _, _)
QueryRows(acc, heap, columns, data, condition, i) ==
    IF i > Len(data) THEN acc
    ELSE LET original_vars == acc.vars
             updated == Update(acc.vars, ZipContext(columns, data[i]))
             c == VisitComparison(updated, heap, condition)
             restored == QueryRestore(original_vars, updated)
         IN  IF ~c.ok
             THEN [acc EXCEPT !.vars = restored, !.exc = <<c.e>>]
             ELSE QueryRows([acc EXCEPT !.vars = restored,
                                        !.results = IF c.b THEN Append(@, data[i]) ELSE @],
                            heap, columns, data, condition, i + 1)

\* visit_QueryNode
VisitQuery(st, node) ==
    LET table == Get(st.vars, node.table_name) IN
    IF ~Truthy(table) THEN Throw(st, "NameError")
    ELSE IF ~IsRef(table) THEN Throw(st, "TypeError")
    ELSE LET columns == st.heap[table.r].columns
             data == st.heap[table.r].data
             sel == IF node.condition = NoCondition
                    THEN [vars |-> st.vars, results |-> data, exc |-> <<>>]
                    ELSE QueryRows([vars |-> st.vars, results |-> <<>>, exc |-> <<>>],
                                   st.heap, columns, data, node.condition, 1)
         IN  IF sel.exc # <<>>
             THEN [st EXCEPT !.vars = sel.vars, !.exc = sel.exc]
             ELSE Emit([st EXCEPT !.vars = sel.vars],
                       [line |-> "Query results", name |-> node.table_name,
                        columns |-> columns, rows |-> sel.results])

\* str(value) as csv.writer writes a field: decimal digits of an int, the
\* text of a str, the empty field for None.
FieldText(v) ==
    CASE IsInt(v) -> ToString(v.i)
      [] IsStr(v) -> v.s
      [] v = None -> ""
      [] OTHER -> "{'columns': ..., 'data': ...}"

\* int(val) of visit_ImportCSVNode on the field texts the model's CSV files
\* and exports contain: the integer a text denotes, or the text itself.
CoerceRange == -20..20

\* An import that keeps every field as text.
CoerceText(text) == S(text)

Coerce(text) ==
    IF \E n \in CoerceRange : ToString(n) = text
    THEN I(CHOOSE n \in CoerceRange : ToString(n) = text)
    ELSE IF text = "07" THEN I(7)
    ELSE S(text)

CsvRecords(data) ==
    [i \in 1..Len(data) |-> [j \in 1..Len(data[i]) |-> FieldText(data[i][j])]]
CoerceRows(records) ==
    [i \in 1..Len(records) |-> [j \in 1..Len(records[i]) |-> Coerce(records[i][j])]]

\* visit_ExportCSVNode.  open(filename, 'w') truncates the file before the
\* table dict is read; any exception inside the try is wrapped.
VisitExportCSV(st, node) ==
    LET table == Get(st.vars, node.table_name) IN
    IF ~Truthy(table) THEN Throw(st, "NameError")
    ELSE IF ~IsRef(table)
         THEN [st EXCEPT !.disk = Put(@, node.filename, <<>>),
                         !.exc = <<"RuntimeError: Failed to export CSV", "TypeError">>]
         ELSE LET t == st.heap[table.r] IN
              Emit([st EXCEPT !.disk = Put(@, node.filename,
                                           <<t.columns>> \o CsvRecords(t.data))],
                   [line |-> "Exported", rows |-> Len(t.data), filename |-> node.filename])

\* visit_ImportCSVNode.  A missing file and an empty file (next(reader)
\* raises StopIteration) both surface as RuntimeError.
VisitImportCSV(st, node) ==
    IF node.filename \notin DOMAIN st.disk
    THEN Throw(st, "RuntimeError: CSV file not found")
    ELSE LET records == st.disk[node.filename] IN
         IF records = <<>>
         THEN [st EXCEPT !.exc = <<"RuntimeError: Failed to import CSV", "StopIteration">>]
         ELSE LET data == CoerceRows(Tail(records)) IN
              Emit(Alloc(st, node.table_name, Table(Head(records), data)),
                   [line |-> "Imported rows", rows |-> Len(data), name |-> node.table_name])

(***************************************************************************)
(* File inclusion.  `fs` is the content of the .tadb files the statement   *)
(* reads: fs[path] is the outcome of Lexer(code).tokenize() and            *)
(* Parser(tokens).parse() on the file's text, either a syntax error or     *)
(* the ProgramNode's statements.  All files of the model live in the       *)
(* working directory; a path names one plainly or through "./".            *)
(***************************************************************************)
SourceFile(stmts) == [syntax_ok |-> TRUE, statements |-> stmts]
BadSourceFile == [syntax_ok |-> FALSE, statements |-> <<>>]

\* The paths of the model: the name of a file in the working directory
\* with "./" before it any number of times.
SourceNames == {"a.tadb", "b.tadb"}
RECURSIVE DotSlash(_)
DotSlash(k) == IF k = 0 THEN "" ELSE "./" \o DotSlash(k - 1)

\* os.path.dirname: what stands before the last "/" of the path, "" when
\* the path has none.
Dirname(path) ==
    IF \E n \in SourceNames, k \in 1..(RecursionLimit + 1) : path = DotSlash(k) \o n
    THEN LET k == CHOOSE k \in 1..(RecursionLimit + 1) :
                     \E n \in SourceNames : path = DotSlash(k) \o n
         IN  DotSlash(k - 1) \o "."
    ELSE ""

\* open(filename): the file system follows "./" to the same directory.
FileName(path) ==
    IF \E n \in SourceNames, k \in 1..(RecursionLimit + 1) : path = DotSlash(k) \o n
    THEN CHOOSE n \in SourceNames : \E k \in 1..(RecursionLimit + 1) : path = DotSlash(k) \o n
    ELSE path

\* The path resolution at the head of visit_ImportNode / visit_RunAsFileNode.
Resolve(st, filename) ==
    IF st.current_file # Interactive
    THEN IF Dirname(st.current_file) = "" THEN filename   \* os.path.join
         ELSE Dirname(st.current_file) \o "/" \o filename
    ELSE filename

InStack(call_stack, filename) == \E i \in 1..Len(call_stack) : call_stack[i] = filename

\* except Exception as e: raise RuntimeError(f"... failed: {str(e)}")
Wrap(st, prefix) == [st EXCEPT !.exc = <<prefix>> \o @]

\* An import that evaluates the assignments of the file as well.
IsTableDefinitionOrAssignment(stmt) == stmt.node \in {"MakeTable", "EditRow", "Assignment"}

\* isinstance(stmt, (MakeTableNode, EditRowNode))
IsTableDefinition(stmt) == stmt.node \in {"MakeTable", "EditRow"}

RECURSIVE VisitStatement(_, _, _), VisitProgram(_, _, _),
          VisitImport(_, _, _), VisitRunAsFile(_, _, _)

\* visit_ProgramNode: the statements in order; an exception ends the loop.
VisitProgram(st, statements, fs) ==
    IF statements = <<>> THEN st
    ELSE LET st1 == VisitStatement(st, Head(statements), fs) IN
         IF Failed(st1) THEN st1 ELSE VisitProgram(st1, Tail(statements), fs)

\* visit_ImportNode.  Python raises RecursionError inside the try when the
\* nested evaluations in progress reach its recursion limit.
VisitImport(st, node, fs) ==
    LET filename == Resolve(st, node.filename) IN
    IF InStack(st.call_stack, filename)
    THEN Throw(st, "RuntimeError: Circular import detected")
    ELSE IF Len(st.call_stack) >= RecursionLimit
    THEN Wrap(Throw(st, "RecursionError"), "RuntimeError: Import failed")
    ELSE IF FileName(filename) \notin DOMAIN fs
    THEN Wrap(Throw(st, "FileNotFoundError"), "RuntimeError: Import failed")
    ELSE LET original_call_stack == st.call_stack
             original_file == st.current_file
             entered == [st EXCEPT !.call_stack = Append(@, filename),
                                   !.current_file = filename]
         IN  IF ~fs[FileName(filename)].syntax_ok
             THEN Wrap(Throw(entered, "SyntaxError"), "RuntimeError: Import failed")
             ELSE LET done == VisitProgram(entered,
                                           SelectSeq(fs[FileName(filename)].statements,
                                                     IsTableDefinition),
                                           fs)
                  IN  IF Failed(done)
                      THEN Wrap(done, "RuntimeError: Import failed")
                      ELSE Emit([done EXCEPT !.call_stack = original_call_stack,
                                             !.current_file = original_file],
                                [line |-> "Imported tables", filename |-> filename])

\* visit_RunAsFileNode.  self.vars.copy() is a shallow copy of the name ->
\* object mapping: the table dicts it points to stay shared with the
\* running program, and `self.vars = original_vars` brings the names back.
VisitRunAsFile(st, node, fs) ==
    LET filename == Resolve(st, node.filename) IN
    IF InStack(st.call_stack, filename)
    THEN Throw(st, "RuntimeError: Circular execution detected")
    ELSE IF Len(st.call_stack) >= RecursionLimit
    THEN Wrap(Throw(st, "RecursionError"), "RuntimeError: RUNASFILE failed")
    ELSE IF FileName(filename) \notin DOMAIN fs
    THEN Wrap(Throw(st, "FileNotFoundError"), "RuntimeError: RUNASFILE failed")
    ELSE LET original_vars == st.vars
             prev_file == st.current_file
             entered == [st EXCEPT !.call_stack = Append(@, filename),
                                   !.current_file = filename]
         IN  IF ~fs[FileName(filename)].syntax_ok
             THEN Wrap(Throw(entered, "SyntaxError"), "RuntimeError: RUNASFILE failed")
             ELSE LET done == VisitProgram(entered, fs[FileName(filename)].statements, fs) IN
                  IF Failed(done)
                  THEN Wrap(done, "RuntimeError: RUNASFILE failed")
                  ELSE [done EXCEPT
                          !.vars = original_vars,
                          !.call_stack = SubSeq(@, 1, Len(@) - 1),
                          !.current_file = prev_file,
                          !.should_exit = TRUE]

\* Interpreter.visit: dispatch on the node's class.
VisitStatement(st, stmt, fs) ==
    CASE stmt.node = "Assignment" -> VisitAssignment(st, stmt)
      [] stmt.node = "Print" -> VisitPrint(st, stmt)
      [] stmt.node = "MakeTable" -> VisitMakeTable(st, stmt)
      [] stmt.node = "EditRow" -> VisitEditRow(st, stmt)
      [] stmt.node = "EditCell" -> VisitEditCell(st, stmt)
      [] stmt.node = "Query" -> VisitQuery(st, stmt)
      [] stmt.node = "ExportCSV" -> VisitExportCSV(st, stmt)
      [] stmt.node = "ImportCSV" -> VisitImportCSV(st, stmt)
      [] stmt.node = "Import" -> VisitImport(st, stmt, fs)
      [] stmt.node = "RunAsFile" -> VisitRunAsFile(st, stmt, fs)

(***************************************************************************)
(* Lexer.  A source text is the sequence of its lexemes, the pieces the    *)
(* patterns of token_specs match between white space and comments:         *)
(* Word(w) is the characters of w, Quoted(s) is s between double quotes.   *)
(***************************************************************************)
Word(w) == [word |-> w]
Quoted(s) == [quoted |-> s]

Token(type, value) == [type |-> type, value |-> value]

\* The patterns of token_specs that match one fixed text, with their tags.
FixedTokens ==
    [w \in {">=", "<=", "==", "!=", ">", "<", "=", "+", "-", "*", "/", "(", ")",
            "[", "]", ",", "importcsv", "import", "as", "editcell", "print",
            "query", "maketable", "editrow", "exportcsv", "runfile"} |->
       CASE w = ">=" -> "GREATEREQUAL" [] w = "<=" -> "LESSEQUAL"
         [] w = "==" -> "EQUAL" [] w = "!=" -> "NOTEQUAL"
         [] w = ">" -> "GREATER" [] w = "<" -> "LESS"
         [] w = "=" -> "ASSIGN" [] w = "+" -> "PLUS" [] w = "-" -> "MINUS"
         [] w = "*" -> "MULTIPLY" [] w = "/" -> "DIVIDE"
         [] w = "(" -> "LPAREN" [] w = ")" -> "RPAREN"
         [] w = "[" -> "LBRACKET" [] w = "]" -> "RBRACKET"
         [] w = "," -> "COMMA"
         [] w = "importcsv" -> "IMPORT_CSV" [] w = "import" -> "IMPORT"
         [] w = "as" -> "AS" [] w = "editcell" -> "EDITCELL"
         [] w = "print" -> "PRINT" [] w = "query" -> "QUERY"
         [] w = "maketable" -> "MAKETABLE" [] w = "editrow" -> "EDITROW"
         [] w = "exportcsv" -> "EXPORTCSV" [] w = "runfile" -> "RUNASFILE"]

\* \d+ : the decimal numerals the model's texts use, and int() of one.
NumberRange == 0..20
IsNumber(w) == \E n \in NumberRange : ToString(n) = w
IntOf(w) == CHOOSE n \in NumberRange : ToString(n) = w

\* [a-zA-Z_][a-zA-Z0-9_]* : the names the model's texts use.
Identifiers == {"T", "U", "k", "v", "u", "w"}

\* Lexer.tokenize: the token of each lexeme; the for-else raises
\* SyntaxError on a character no pattern matches.
RECURSIVE Tokenize(_)
Tokenize(code) ==
    IF code = <<>> THEN [exc |-> <<>>, tokens |-> <<>>]
    ELSE LET lexeme == Head(code)
             t == IF "quoted" \in DOMAIN lexeme THEN Token("STRING", lexeme.quoted)
                  ELSE IF lexeme.word \in DOMAIN FixedTokens
                       THEN Token(FixedTokens[lexeme.word], lexeme.word)
                  ELSE IF IsNumber(lexeme.word) THEN Token("NUMBER", lexeme.word)
                  ELSE IF lexeme.word \in Identifiers THEN Token("IDENTIFIER", lexeme.word)
                  ELSE Token("", lexeme.word)
         IN
         IF t.type = "" THEN [exc |-> <<"SyntaxError">>, tokens |-> <<>>]
         ELSE LET r == Tokenize(Tail(code)) IN
              IF r.exc # <<>> THEN r ELSE [r EXCEPT !.tokens = <<t>> \o @]

(***************************************************************************)
(* Lexer, character by character.  Here a source text is the sequence of   *)
(* its characters, and tokenize() is the loop of the code: at each         *)
(* position the first pattern of token_specs that matches wins.  The       *)
(* lexemes above are what this loop finds in a text whose lexemes are      *)
(* separated by white space.                                               *)
(***************************************************************************)
\* \d
DigitChars == {"0", "1", "2", "3", "4", "5", "6", "7", "8", "9"}

\* A letter outside ASCII: \b counts it as a word character, and no
\* pattern of token_specs matches it.
OtherLetter == "U+00E9"

\* [a-zA-Z_], and the characters \b takes for a word: [a-zA-Z0-9_] and
\* the letters outside ASCII.
NameStart ==
    {"a", "b", "c", "d", "e", "f", "g", "h", "i", "j", "k", "l", "m",
     "n", "o", "p", "q", "r", "s", "t", "u", "v", "w", "x", "y", "z",
     "A", "B", "C", "D", "E", "F", "G", "H", "I", "J", "K", "L", "M",
     "N", "O", "P", "Q", "R", "S", "T", "U", "V", "W", "X", "Y", "Z", "_"}
WordChars == NameStart \cup DigitChars \cup {OtherLetter}

\* One entry of token_specs: a regular expression and its tag ("" for None).
\* The kinds are "literal" for a fixed text, "keyword" for a fixed text
\* followed by \b, and one kind for each of the other expressions.
Pattern(kind, chars, tag) == [kind |-> kind, chars |-> chars, tag |-> tag]

\* self.token_specs, in the order of the list.
TokenSpecs ==
    << Pattern("literal", <<">", "=">>, "GREATEREQUAL"),
       Pattern("literal", <<"<", "=">>, "LESSEQUAL"),
       Pattern("literal", <<"=", "=">>, "EQUAL"),
       Pattern("literal", <<"!", "=">>, "NOTEQUAL"),
       Pattern("string", <<>>, "STRING"),
       Pattern("literal", <<">">>, "GREATER"),
       Pattern("literal", <<"<">>, "LESS"),
       Pattern("space", <<>>, ""),
       Pattern("comment", <<>>, ""),
       Pattern("literal", <<"=">>, "ASSIGN"),
       Pattern("literal", <<"+">>, "PLUS"),
       Pattern("literal", <<"-">>, "MINUS"),
       Pattern("literal", <<"*">>, "MULTIPLY"),
       Pattern("literal", <<"/">>, "DIVIDE"),
       Pattern("literal", <<"(">>, "LPAREN"),
       Pattern("literal", <<")">>, "RPAREN"),
       Pattern("literal", <<"[">>, "LBRACKET"),
       Pattern("literal", <<"]">>, "RBRACKET"),
       Pattern("literal", <<",">>, "COMMA"),
       Pattern("digits", <<>>, "NUMBER"),
       Pattern("keyword", <<"i", "m", "p", "o", "r", "t", "c", "s", "v">>, "IMPORT_CSV"),
       Pattern("keyword", <<"i", "m", "p", "o", "r", "t">>, "IMPORT"),
       Pattern("keyword", <<"a", "s">>, "AS"),
       Pattern("keyword", <<"e", "d", "i", "t", "c", "e", "l", "l">>, "EDITCELL"),
       Pattern("keyword", <<"p", "r", "i", "n", "t">>, "PRINT"),
       Pattern("keyword", <<"q", "u", "e", "r", "y">>, "QUERY"),
       Pattern("keyword", <<"m", "a", "k", "e", "t", "a", "b", "l", "e">>, "MAKETABLE"),
       Pattern("keyword", <<"e", "d", "i", "t", "r", "o", "w">>, "EDITROW"),
       Pattern("keyword", <<"e", "x", "p", "o", "r", "t", "c", "s", "v">>, "EXPORTCSV"),
       Pattern("keyword", <<"r", "u", "n", "f", "i", "l", "e">>, "RUNASFILE"),
       Pattern("identifier", <<>>, "IDENTIFIER") >>

\* The characters `chars` stand in code at position pos.
StartsWith(code, pos, chars) ==
    /\ pos + Len(chars) - 1 <= Len(code)
    /\ \A i \in 1..Len(chars) : code[pos + i - 1] = chars[i]

\* How many characters from position pos on are in `class`.
RECURSIVE RunLength(_, _, _)
RunLength(code, pos, class) ==
    IF pos <= Len(code) /\ code[pos] \in class
    THEN 1 + RunLength(code, pos + 1, class)
    ELSE 0

\* How many characters from position pos on differ from the character c.
RECURSIVE RunUntil(_, _, _)
RunUntil(code, pos, c) ==
    IF pos <= Len(code) /\ code[pos] # c THEN 1 + RunUntil(code, pos + 1, c) ELSE 0

\* regex.match(self.code, self.pos): the length of the match of pattern p
\* at position pos, 0 when it does not match (no pattern matches the
\* empty text).
MatchLength(p, code, pos) ==
    CASE p.kind = "literal" -> IF StartsWith(code, pos, p.chars) THEN Len(p.chars) ELSE 0
      [] p.kind = "keyword" ->
           IF /\ StartsWith(code, pos, p.chars)
              /\ \/ pos + Len(p.chars) > Len(code)
                 \/ code[pos + Len(p.chars)] \notin WordChars
           THEN Len(p.chars) ELSE 0
      [] p.kind = "string" ->
           IF /\ code[pos] = "\""
              /\ pos + RunUntil(code, pos + 1, "\"") < Len(code)
           THEN RunUntil(code, pos + 1, "\"") + 2 ELSE 0
      [] p.kind = "space" -> RunLength(code, pos, {" ", "\n", "\t"})
      [] p.kind = "comment" ->
           IF code[pos] = "#" THEN 1 + RunUntil(code, pos + 1, "\n") ELSE 0
      [] p.kind = "digits" -> RunLength(code, pos, DigitChars)
      [] p.kind = "identifier" ->
           IF code[pos] \in NameStart THEN 1 + RunLength(code, pos + 1, NameStart \cup DigitChars) ELSE 0

\* The patterns that match at position pos, by their place in token_specs.
Matching(code, pos) == {i \in 1..Len(TokenSpecs) : MatchLength(TokenSpecs[i], code, pos) > 0}

\* A scanner in which the last pattern of the list that matches wins.
LastMatch(code, pos) == CHOOSE i \in Matching(code, pos) : \A j \in Matching(code, pos) : j <= i

\* `for pattern, tag in self.token_specs: ... if match: ... break`
FirstMatch(code, pos) == CHOOSE i \in Matching(code, pos) : \A j \in Matching(code, pos) : i <= j

\* match.group(0), and value[1:-1] for a STRING.
RECURSIVE Text(_, _, _)
Text(code, pos, n) == IF n = 0 THEN "" ELSE code[pos] \o Text(code, pos + 1, n - 1)

TokenAt(type, value, column) == [type |-> type, value |-> value, column |-> column]

\* Lexer(code): the fields of a new Lexer (the texts of the model have one
\* line, so pos, counted from 1, is self.column).
NewLexer(code) == [code |-> code, pos |-> 1, tokens |-> <<>>, exc |-> <<>>]

\* Lexer.tokenize from position lx.pos on; the for-else raises SyntaxError
\* and leaves the tokens found so far in self.tokens.
RECURSIVE TokenizeFrom(_)
TokenizeFrom(lx) ==
    IF lx.pos > Len(lx.code) THEN lx
    ELSE IF Matching(lx.code, lx.pos) = {} THEN [lx EXCEPT !.exc = <<"SyntaxError">>]
    ELSE LET p == TokenSpecs[FirstMatch(lx.code, lx.pos)]
             n == MatchLength(p, lx.code, lx.pos)
             value == IF p.tag = "STRING" THEN Text(lx.code, lx.pos + 1, n - 2)
                      ELSE Text(lx.code, lx.pos, n)
         IN  TokenizeFrom([lx EXCEPT !.pos = @ + n,
                                     !.tokens = IF p.tag = "" THEN @
                                                ELSE Append(@, TokenAt(p.tag, value, lx.pos))])

(***************************************************************************)
(* Parser.  `ts` is the current token followed by self.tokens; an empty    *)
(* `ts` is current_token = None.  A parse method returns the node and the  *)
(* tokens left, or the exception it raised: SyntaxError where the code     *)
(* raises it, AttributeError where the code reads `.type` (or `.line` for  *)
(* the message of a SyntaxError) of the None at the end of the tokens.     *)
(***************************************************************************)
POk(node, rest) == [exc |-> <<>>, node |-> node, rest |-> rest]
PFail(e) == [exc |-> <<e>>]
PFailed(r) == r.exc # <<>>

\* `if self.current_token.type != type: raise SyntaxError(...)`
Expect(ts, type) ==
    IF ts = <<>> THEN <<"AttributeError">>
    ELSE IF Head(ts).type # type THEN <<"SyntaxError">>
    ELSE <<>>

\* `if self.current_token and self.current_token.type == 'COMMA': self.next_token()`
SkipComma(ts) == IF ts # <<>> /\ Head(ts).type = "COMMA" THEN Tail(ts) ELSE ts

RECURSIVE ParseExpression(_), ParseExpressionLoop(_, _), ParseTerm(_),
          ParseTermLoop(_, _), ParseFactor(_)

\* parse_factor
ParseFactor(ts) ==
    IF ts = <<>> THEN PFail("AttributeError")
    ELSE LET token == Head(ts) IN
         CASE token.type = "NUMBER" -> POk(NumberNode(IntOf(token.value)), Tail(ts))
           [] token.type = "STRING" -> POk(StringNode(token.value), Tail(ts))
           [] token.type = "IDENTIFIER" -> POk(IdentifierNode(token.value), Tail(ts))
           [] token.type = "LPAREN" ->
                LET e == ParseExpression(Tail(ts)) IN
                IF PFailed(e) THEN e
                ELSE IF Expect(e.rest, "RPAREN") # <<>> THEN [exc |-> Expect(e.rest, "RPAREN")]
                ELSE POk(e.node, Tail(e.rest))
           [] OTHER -> PFail("SyntaxError")

\* The while loop of parse_term.
ParseTermLoop(node, ts) ==
    IF ts # <<>> /\ Head(ts).type \in {"MULTIPLY", "DIVIDE"}
    THEN LET f == ParseFactor(Tail(ts)) IN
         IF PFailed(f) THEN f
         ELSE ParseTermLoop(BinaryOpNode(node, Head(ts).type, f.node), f.rest)
    ELSE POk(node, ts)

\* parse_term
ParseTerm(ts) ==
    LET f == ParseFactor(ts) IN
    IF PFailed(f) THEN f ELSE ParseTermLoop(f.node, f.rest)

\* The while loop of parse_expression.
ParseExpressionLoop(node, ts) ==
    IF ts # <<>> /\ Head(ts).type \in {"PLUS", "MINUS"}
    THEN LET t == ParseTerm(Tail(ts)) IN
         IF PFailed(t) THEN t
         ELSE ParseExpressionLoop(BinaryOpNode(node, Head(ts).type, t.node), t.rest)
    ELSE POk(node, ts)

\* parse_expression
ParseExpression(ts) ==
    LET t == ParseTerm(ts) IN
    IF PFailed(t) THEN t ELSE ParseExpressionLoop(t.node, t.rest)

\* parse_comparison
ParseComparison(ts) ==
    LET left == ParseExpression(ts) IN
    IF PFailed(left) THEN left
    ELSE IF left.rest = <<>> THEN PFail("AttributeError")
    ELSE IF Head(left.rest).type \notin {"GREATER", "LESS", "EQUAL", "NOTEQUAL",
                                         "GREATEREQUAL", "LESSEQUAL"}
         THEN PFail("SyntaxError")
    ELSE LET right == ParseExpression(Tail(left.rest)) IN
         IF PFailed(right) THEN right
         ELSE POk(ComparisonOpNode(left.node, Head(left.rest).type, right.node), right.rest)

\* parse_print
ParsePrint(ts) ==
    LET e == ParseExpression(Tail(ts)) IN
    IF PFailed(e) THEN e ELSE POk(PrintNode(e.node), e.rest)

\* The while loop of parse_maketable: column names, each optionally
\* followed by a comma, up to the closing bracket or the end of the tokens.
RECURSIVE ParseColumns(_, _)
ParseColumns(columns, ts) ==
    IF ts # <<>> /\ Head(ts).type # "RBRACKET"
    THEN IF Head(ts).type = "IDENTIFIER"
         THEN ParseColumns(Append(columns, Head(ts).value), SkipComma(Tail(ts)))
         ELSE PFail("SyntaxError")
    ELSE POk(columns, ts)

\* parse_maketable
ParseMakeTable(ts) ==
    IF Expect(Tail(ts), "IDENTIFIER") # <<>> THEN [exc |-> Expect(Tail(ts), "IDENTIFIER")]
    ELSE LET var_name == Head(Tail(ts)).value
             t2 == Tail(Tail(ts))
         IN  IF Expect(t2, "LBRACKET") # <<>> THEN [exc |-> Expect(t2, "LBRACKET")]
             ELSE LET c == ParseColumns(<<>>, Tail(t2)) IN
                  IF PFailed(c) THEN c
                  ELSE IF Expect(c.rest, "RBRACKET") # <<>>
                       THEN [exc |-> Expect(c.rest, "RBRACKET")]
                  ELSE POk(MakeTableNode(var_name, c.node), Tail(c.rest))

\* The while loops of parse_editrow and parse_editcell: expressions, each
\* optionally followed by a comma, up to the closing bracket, the end of
\* the tokens or `limit` expressions.
RECURSIVE ParseValues(_, _, _)
ParseValues(values, ts, limit) ==
    IF ts # <<>> /\ Head(ts).type # "RBRACKET" /\ Len(values) < limit
    THEN LET e == ParseExpression(ts) IN
         IF PFailed(e) THEN e
         ELSE ParseValues(Append(values, e.node), SkipComma(e.rest), limit)
    ELSE POk(values, ts)

\* parse_editrow; the limit 1000 stands for no bound on the values.
ParseEditRow(ts) ==
    IF Expect(Tail(ts), "IDENTIFIER") # <<>> THEN [exc |-> Expect(Tail(ts), "IDENTIFIER")]
    ELSE LET table_name == Head(Tail(ts)).value
             t2 == Tail(Tail(ts))
         IN  IF Expect(t2, "LBRACKET") # <<>> THEN [exc |-> Expect(t2, "LBRACKET")]
             ELSE LET v == ParseValues(<<>>, Tail(t2), 1000) IN
                  IF PFailed(v) THEN v
                  ELSE IF Expect(v.rest, "RBRACKET") # <<>>
                       THEN [exc |-> Expect(v.rest, "RBRACKET")]
                  ELSE POk(EditRowNode(table_name, v.node), Tail(v.rest))

\* parse_editcell
ParseEditCell(ts) ==
    IF Expect(Tail(ts), "IDENTIFIER") # <<>> THEN [exc |-> Expect(Tail(ts), "IDENTIFIER")]
    ELSE LET table_name == Head(Tail(ts)).value
             t2 == Tail(Tail(ts))
         IN  IF Expect(t2, "LBRACKET") # <<>> THEN [exc |-> Expect(t2, "LBRACKET")]
             ELSE LET x == ParseValues(<<>>, Tail(t2), 3) IN
                  IF PFailed(x) THEN x
                  ELSE IF Len(x.node) # 3
                       THEN IF x.rest = <<>> THEN PFail("AttributeError")
                            ELSE PFail("SyntaxError")
                  ELSE IF Expect(x.rest, "RBRACKET") # <<>>
                       THEN [exc |-> Expect(x.rest, "RBRACKET")]
                  ELSE POk(EditCellNode(table_name, x.node[1], x.node[2], x.node[3]),
                           Tail(x.rest))

\* A parse_query that takes the condition only when a comparison follows.
ParseQueryOptional(ts) ==
    IF Expect(Tail(ts), "IDENTIFIER") # <<>> THEN [exc |-> Expect(Tail(ts), "IDENTIFIER")]
    ELSE LET table_name == Head(Tail(ts)).value
             t2 == Tail(Tail(ts))
         IN  IF t2 = <<>> \/ PFailed(ParseComparison(t2))
             THEN POk(QueryNode(table_name, NoCondition), t2)
             ELSE POk(QueryNode(table_name, ParseComparison(t2).node),
                      ParseComparison(t2).rest)

\* parse_query
ParseQuery(ts) ==
    IF Expect(Tail(ts), "IDENTIFIER") # <<>> THEN [exc |-> Expect(Tail(ts), "IDENTIFIER")]
    ELSE LET table_name == Head(Tail(ts)).value
             t2 == Tail(Tail(ts))
         IN  IF t2 = <<>> THEN POk(QueryNode(table_name, NoCondition), t2)
             ELSE LET c == ParseComparison(t2) IN
                  IF PFailed(c) THEN c
                  ELSE POk(QueryNode(table_name, c.node), c.rest)

\* parse_exportcsv
ParseExportCSV(ts) ==
    IF Expect(Tail(ts), "IDENTIFIER") # <<>> THEN [exc |-> Expect(Tail(ts), "IDENTIFIER")]
    ELSE LET t2 == Tail(Tail(ts)) IN
         IF Expect(t2, "STRING") # <<>> THEN [exc |-> Expect(t2, "STRING")]
         ELSE POk(ExportCSVNode(Head(Tail(ts)).value, Head(t2).value), Tail(t2))

\* parse_importcsv
ParseImportCSV(ts) ==
    IF Expect(Tail(ts), "STRING") # <<>> THEN [exc |-> Expect(Tail(ts), "STRING")]
    ELSE LET t2 == Tail(Tail(ts)) IN
         IF Expect(t2, "AS") # <<>> THEN [exc |-> Expect(t2, "AS")]
         ELSE IF Expect(Tail(t2), "IDENTIFIER") # <<>>
              THEN [exc |-> Expect(Tail(t2), "IDENTIFIER")]
         ELSE POk(ImportCSVNode(Head(Tail(ts)).value, Head(Tail(t2)).value), Tail(Tail(t2)))

\* parse_import
ParseImport(ts) ==
    IF Expect(Tail(ts), "STRING") # <<>> THEN [exc |-> Expect(Tail(ts), "STRING")]
    ELSE POk(ImportNode(Head(Tail(ts)).value), Tail(Tail(ts)))

\* parse_runasfile
ParseRunAsFile(ts) ==
    IF Expect(Tail(ts), "STRING") # <<>> THEN [exc |-> Expect(Tail(ts), "STRING")]
    ELSE POk(RunAsFileNode(Head(Tail(ts)).value), Tail(Tail(ts)))

\* parse_assignment: the value of the current token, whatever its type, is
\* the target.
ParseAssignment(ts) ==
    LET identifier == Head(ts).value IN
    IF Tail(ts) = <<>> \/ Head(Tail(ts)).type # "ASSIGN" THEN PFail("SyntaxError")
    ELSE LET e == ParseExpression(Tail(Tail(ts))) IN
         IF PFailed(e) THEN e ELSE POk(AssignmentNode(identifier, e.node), e.rest)

\* parse_statement
ParseStatement(ts) ==
    CASE Head(ts).type = "PRINT" -> ParsePrint(ts)
      [] Head(ts).type = "MAKETABLE" -> ParseMakeTable(ts)
      [] Head(ts).type = "EDITROW" -> ParseEditRow(ts)
      [] Head(ts).type = "EDITCELL" -> ParseEditCell(ts)
      [] Head(ts).type = "QUERY" -> ParseQuery(ts)
      [] Head(ts).type = "EXPORTCSV" -> ParseExportCSV(ts)
      [] Head(ts).type = "IMPORT_CSV" -> ParseImportCSV(ts)
      [] Head(ts).type = "IMPORT" -> ParseImport(ts)
      [] Head(ts).type = "RUNASFILE" -> ParseRunAsFile(ts)
      [] OTHER -> ParseAssignment(ts)

\* parse_program: statements until no token is left.
RECURSIVE ParseProgram(_, _)
ParseProgram(statements, ts) ==
    IF ts = <<>> THEN [exc |-> <<>>, statements |-> statements]
    ELSE LET s == ParseStatement(ts) IN
         IF PFailed(s) THEN [exc |-> s.exc, statements |-> <<>>]
         ELSE ParseProgram(Append(statements, s.node), s.rest)

\* Parser(tokens).parse()
Parse(tokens) == ParseProgram(<<>>, tokens)

\* A run that keeps the statements before the one the parser rejects.
CompileLenient(code) ==
    LET l == Tokenize(code) IN
    IF l.exc # <<>> THEN [exc |-> l.exc, statements |-> <<>>]
    ELSE IF Parse(l.tokens).exc = <<>> THEN Parse(l.tokens)
    ELSE LET n == CHOOSE n \in 0..Len(l.tokens) :
                     /\ Parse(SubSeq(l.tokens, 1, n)).exc = <<>>
                     /\ \A m \in (n + 1)..Len(l.tokens) :
                           Parse(SubSeq(l.tokens, 1, m)).exc # <<>>
         IN  Parse(SubSeq(l.tokens, 1, n))

\* Lexer(code).tokenize() and then Parser(tokens).parse(): the statements
\* of the ProgramNode, or the exception of the lexer or of the parser.
Compile(code) ==
    LET l == Tokenize(code) IN
    IF l.exc # <<>> THEN [exc |-> l.exc, statements |-> <<>>] ELSE Parse(l.tokens)

(***************************************************************************)
(* Inputs of the model: the statements typed at the prompt, the contents   *)
(* of the .tadb files and of the CSV file found on disk.                   *)
(***************************************************************************)

\* The lexemes of a text without string literals.
Words(ws) == [i \in 1..Len(ws) |-> Word(ws[i])]

\* Source texts of one statement.
TopTexts ==
    { Words(<<"maketable", "T", "[", "k", ",", "v", "]">>),
      Words(<<"editrow", "T", "[", "1", ",", "7", "]">>),
      Words(<<"editrow", "T", "[", "2", ",", "8", "]">>),
      Words(<<"editrow", "T", "[", "1", "]">>),
      Words(<<"editcell", "T", "[">>) \o <<Quoted("v")>> \o Words(<<",", "1", ",", "9", "]">>),
      Words(<<"editcell", "T", "[">>) \o <<Quoted("v")>> \o Words(<<",", "3", ",", "9", "]">>),
      Words(<<"editcell", "T", "[">>) \o <<Quoted("k")>> \o Words(<<",", "1", ",", "2", "]">>),
      Words(<<"v", "=", "5">>),
      Words(<<"print", "v">>),
      Words(<<"query", "T">>),
      Words(<<"query", "T", "k", ">", "1">>),
      Words(<<"query", "T", "v", ">", "7">>),
      Words(<<"exportcsv", "T">>) \o <<Quoted("o.csv")>>,
      Words(<<"importcsv">>) \o <<Quoted("d.csv")>> \o Words(<<"as", "T">>),
      Words(<<"importcsv">>) \o <<Quoted("e.csv")>> \o Words(<<"as", "T">>),
      Words(<<"import">>) \o <<Quoted("a.tadb")>>,
      Words(<<"runfile">>) \o <<Quoted("a.tadb")>> }

SeqsUpTo(set, n) == UNION {[1..m -> set] : m \in 0..n}

RECURSIVE Concat(_)
Concat(texts) == IF texts = <<>> THEN <<>> ELSE Head(texts) \o Concat(Tail(texts))

\* Source texts of several statements: the statements below in every
\* order, and a runfile with a statement after it.
SeqTexts ==
    { Words(<<"maketable", "T", "[", "k", ",", "v", "]">>),
      Words(<<"editrow", "T", "[", "1", ",", "7", "]">>),
      Words(<<"editrow", "T", "[", "1", "]">>),
      Words(<<"print", "v">>) }

LongTexts ==
    {Concat(p) : p \in {q \in SeqsUpTo(SeqTexts, MaxProg) : Len(q) >= 2}}
      \cup { Words(<<"runfile">>) \o <<Quoted("a.tadb")>>
               \o Words(<<"maketable", "T", "[", "k", ",", "v", "]">>),
           Words(<<"runfile">>) \o <<Quoted("a.tadb")>>
               \o Words(<<"editrow", "T", "[", "1", "]">>) }

\* Source texts the lexer or the parser rejects, after a first statement
\* that is well formed: a character no pattern matches, a second
\* statement without `=`, a column list and a print that the text ends in.
RejectedTexts ==
    { Words(<<"v", "=", "5", "@">>),
      Words(<<"v", "=", "5", "v", "5">>),
      Words(<<"v", "=", "5", "maketable", "T", "[", "k">>),
      Words(<<"maketable", "T", "[", "k", ",", "v", "]", "print">>) }


\* An importcsv of a file and an exportcsv of the table to another file.
RoundTripTexts ==
    { Words(<<"importcsv">>) \o <<Quoted(f)>> \o Words(<<"as", "T", "exportcsv", "T">>)
        \o <<Quoted("o.csv")>> : f \in {"d.csv", "e.csv"} }

\* Source texts about one table: a second name for it, a column list
\* that repeats a name, rows, cells, the CSV files, and operations on the
\* name w, which no text binds.
TableTexts ==
    { Words(<<"maketable", "T", "[", "k", ",", "v", "]">>),
      Words(<<"maketable", "T", "[", "k", ",", "k", "]">>),
      Words(<<"editrow", "T", "[", "1", ",", "7", "]">>),
      Words(<<"editrow", "T", "[", "2", ",", "8", "]">>),
      Words(<<"editcell", "T", "[">>) \o <<Quoted("v")>> \o Words(<<",", "1", ",", "9", "]">>),
      Words(<<"editcell", "T", "[">>) \o <<Quoted("k")>> \o Words(<<",", "2", ",", "1", "]">>),
      Words(<<"u", "=", "T">>),
      Words(<<"print", "u">>),
      Words(<<"query", "u", "v", ">", "7">>),
      Words(<<"exportcsv", "T">>) \o <<Quoted("o.csv")>>,
      Words(<<"exportcsv", "T">>) \o <<Quoted("d.csv")>>,
      Words(<<"importcsv">>) \o <<Quoted("d.csv")>> \o Words(<<"as", "T">>),
      Words(<<"importcsv">>) \o <<Quoted("e.csv")>> \o Words(<<"as", "T">>),
      Words(<<"importcsv">>) \o <<Quoted("o.csv")>> \o Words(<<"as", "U">>) }
      \cup RoundTripTexts
      \cup { Words(<<"query", "T", "w", "!=", "1">>),
             Words(<<"query", "T", "w", ">", "1">>),
             Words(<<"v", "=", "w", "+", "1">>) }

\* A source text with what run() gets from the lexer and the parser for it.
Compiled(code) == [code |-> code, program |-> Compile(code)]
CompiledPrograms == {Compiled(code) : code \in TopTexts \cup LongTexts \cup RejectedTexts}
CompiledTableTexts == {Compiled(code) : code \in TableTexts}

\* Contents of a.tadb: every sequence of the statements below, and some
\* files with the other statement kinds.
FileStmts ==
    { MakeTableNode("T", <<"k", "v">>),
      EditRowNode("T", <<NumberNode(2), NumberNode(8)>>),
      EditRowNode("T", <<NumberNode(1)>>),
      RunAsFileNode("a.tadb") }

OtherFiles ==
    { <<MakeTableNode("T", <<"k", "v">>), RunAsFileNode("a.tadb")>>,
      <<MakeTableNode("T", <<"k", "v">>), EditRowNode("T", <<NumberNode(1)>>)>>,
      <<EditRowNode("T", <<NumberNode(2), NumberNode(8)>>), AssignmentNode("v", NumberNode(5)),
        PrintNode(IdentifierNode("v"))>>,
      <<EditCellNode("T", StringNode("v"), NumberNode(1), NumberNode(9)), ImportNode("a.tadb")>>,
      <<QueryNode("T", ComparisonOpNode(IdentifierNode("k"), "GREATER", NumberNode(1))),
        ExportCSVNode("T", "o.csv"), ImportCSVNode("d.csv", "U")>>,
      <<MakeTableNode("T", <<"k", "v">>), PrintNode(IdentifierNode("T")),
        EditRowNode("T", <<NumberNode(2), NumberNode(8)>>), RunAsFileNode("b.tadb")>>,
      <<EditRowNode("T", <<NumberNode(2), NumberNode(8)>>), RunAsFileNode("b.tadb")>>,
      <<RunAsFileNode("./a.tadb")>> }

\* parse_query reads a comparison whenever a token follows the table name,
\* so a Query without a condition is the last statement of its file.
FilesA ==
    { SourceFile(p) :
        p \in { q \in SeqsUpTo(FileStmts, MaxFileLen) :
                  \A i \in 1..(Len(q) - 1) :
                     ~(q[i].node = "Query" /\ q[i].condition = NoCondition) }
              \cup OtherFiles }
      \cup {BadSourceFile}

\* The .tadb files a statement can find: a.tadb always exists; b.tadb is
\* missing, or has one of two contents when a.tadb refers to it.
FileSystems ==
    {[f \in {"a.tadb"} |-> a] : a \in FilesA}
      \cup {[f \in {"a.tadb", "b.tadb"} |-> IF f = "a.tadb" THEN a ELSE b] :
              a \in {x \in FilesA :
                       \E i \in 1..Len(x.statements) :
                          /\ x.statements[i].node \in {"Import", "RunAsFile"}
                          /\ x.statements[i].filename = "b.tadb"},
              b \in { SourceFile(<<EditRowNode("T", <<NumberNode(3), NumberNode(9)>>)>>),
                      SourceFile(<<RunAsFileNode("a.tadb")>>) }}
NoFiles == [f \in {} |-> BadSourceFile]

\* The CSV files found on disk: records of text fields.  d.csv repeats a
\* key; e.csv has a blank line, which csv.reader yields as a record
\* without fields.
CsvInputs ==
    [f \in {"d.csv", "e.csv"} |->
       IF f = "d.csv"
       THEN <<<<"k", "v">>, <<"1", "7">>, <<"2", "8">>, <<"1", "9">>>>
       ELSE <<<<"k", "v">>, <<"2", "a">>, <<>>, <<"3", "07">>>>]

(***************************************************************************)
(* State.                                                                  *)
(***************************************************************************)
VARIABLES
    vars,           \* self.vars: name -> value
    heap,           \* the table dicts, by address
    out,            \* what print() has written since run() was called
    should_exit,    \* self.should_exit
    call_stack,     \* self.call_stack
    current_file,   \* self.current_file
    disk,           \* CSV files: path -> records
    pc,             \* main(): "prompt", "run" (inside interpreter.run), "exited"
    pending,        \* statements of the running program not yet visited
    error,          \* the exception the last run() raised, <<>> if none
    position,       \* how many statements of the running program were visited
    last,           \* history: the statement visited last, the interpreter before it
    steps,          \* statements submitted and texts rejected so far
    lexer           \* a Lexer object: self.code, self.pos, self.tokens, and
                    \* the exception tokenize() raised

varlist == <<vars, heap, out, should_exit, call_stack, current_file, disk,
             pc, pending, error, position, last, steps, lexer>>

\* The interpreter as a record, for the handlers.
Self == [vars |-> vars, heap |-> heap, out |-> out, should_exit |-> should_exit,
         call_stack |-> call_stack, current_file |-> current_file,
         disk |-> disk, exc |-> <<>>]

NoStmt == [node |-> "None"]

\* Interpreter.__init__, and main() about to read its first input.
InitInterpreter ==
    /\ vars = [n \in {} |-> None]
    /\ heap = <<>>
    /\ out = <<>>
    /\ should_exit = FALSE
    /\ call_stack = <<>>
    /\ current_file = Interactive
    /\ disk = CsvInputs
    /\ pc = "prompt"
    /\ pending = <<>>
    /\ error = <<>>
    /\ position = 0
    /\ last = [code |-> <<>>, stmt |-> NoStmt, rest |-> <<>>, files |-> NoFiles,
               pre |-> Self, exc |-> <<>>]
    /\ steps = 0

Init == InitInterpreter /\ lexer = NewLexer(<<>>)

\* What a text counts for in `steps`: its statements, or one when it is
\* rejected.
Cost(program) == IF program.statements = <<>> THEN 1 ELSE Len(program.statements)

\* Interpreter.run on the text c.code: the text is scanned and parsed; an
\* exception of the lexer or the parser leaves run() before any statement
\* is visited, otherwise visit_ProgramNode starts on the statements.  The
\* caller collects what this invocation prints (redirect_stdout in
\* execute_repl_command).
RunWithin(c, limit) ==
    /\ pc = "prompt"
    /\ steps + Cost(c.program) <= limit
    /\ pc' = IF c.program.statements = <<>> THEN "prompt" ELSE "run"
    /\ pending' = c.program.statements
    /\ error' = c.program.exc
    /\ position' = 0
    /\ steps' = steps + Cost(c.program)
    /\ out' = <<>>
    /\ last' = [code |-> c.code, stmt |-> NoStmt, rest |-> c.program.statements,
                files |-> NoFiles, pre |-> [Self EXCEPT !.out = <<>>],
                exc |-> c.program.exc]
    /\ UNCHANGED <<vars, heap, should_exit, call_stack, current_file, disk, lexer>>

Run(c) == RunWithin(c, MaxSteps)

\* A loop that goes on with the next statement after an exception.
PropagateContinue(st, rest) == rest

\* One iteration of `for stmt in node.statements: self.visit(stmt)`.  An
\* exception leaves the loop and run(), and main() prints it and prompts
\* again.
Propagate(st, rest) == IF Failed(st) THEN <<>> ELSE rest

\* After the last statement run() returns, and main() leaves its loop when
\* should_exit is set.
AfterStep(st, rest) ==
    IF Failed(st) THEN "prompt"
    ELSE IF rest # <<>> THEN "run"
    ELSE IF st.should_exit THEN "exited" ELSE "prompt"

Step(kind, fs) ==
    /\ pc = "run"
    /\ pending # <<>>
    /\ Head(pending).node = kind
    /\ LET st == VisitStatement(Self, Head(pending), fs) IN
       /\ vars' = st.vars
       /\ heap' = st.heap
       /\ out' = st.out
       /\ should_exit' = st.should_exit
       /\ call_stack' = st.call_stack
       /\ current_file' = st.current_file
       /\ disk' = st.disk
       /\ error' = st.exc
       /\ pending' = Propagate(st, Tail(pending))
       /\ pc' = AfterStep(st, Propagate(st, Tail(pending)))
    /\ position' = position + 1
    /\ last' = [code |-> last.code, stmt |-> Head(pending), rest |-> Tail(pending),
                files |-> fs, pre |-> Self,
                exc |-> VisitStatement(Self, Head(pending), fs).exc]
    /\ UNCHANGED <<steps, lexer>>

EvalAssignment == Step("Assignment", NoFiles)
EvalPrint == Step("Print", NoFiles)
EvalMakeTable == Step("MakeTable", NoFiles)
EvalEditRow == Step("EditRow", NoFiles)
EvalEditCell == Step("EditCell", NoFiles)
EvalQuery == Step("Query", NoFiles)
EvalExportCSV == Step("ExportCSV", NoFiles)
EvalImportCSV == Step("ImportCSV", NoFiles)
EvalImport == \E fs \in FileSystems : Step("Import", fs)
EvalRunAsFile == \E fs \in FileSystems : Step("RunAsFile", fs)

\* The input 'exit' ends main().
Quit ==
    /\ pc = "prompt"
    /\ pc' = "exited"
    /\ UNCHANGED <<vars, heap, out, should_exit, call_stack, current_file, disk,
                 pending, error, position, last, steps, lexer>>

Next ==
    \/ \E c \in CompiledPrograms : Run(c)
    \/ EvalAssignment
    \/ EvalPrint
    \/ EvalMakeTable
    \/ EvalEditRow
    \/ EvalEditCell
    \/ EvalQuery
    \/ EvalExportCSV
    \/ EvalImportCSV
    \/ EvalImport
    \/ EvalRunAsFile
    \/ Quit

Spec == Init /\ [][Next]_varlist

\* The REPL given the source texts about one table only.
NextTables ==
    \/ \E c \in CompiledTableTexts : Run(c)
    \/ EvalAssignment
    \/ EvalPrint
    \/ EvalMakeTable
    \/ EvalEditRow
    \/ EvalEditCell
    \/ EvalQuery
    \/ EvalExportCSV
    \/ EvalImportCSV
    \/ Quit

SpecTables == Init /\ [][NextTables]_varlist

(***************************************************************************)
(* Source texts for the parser alone, each given to a new interpreter.     *)
(***************************************************************************)
\* The words of the expression with the operands ns and the operators ops
\* between them, and with parentheses around the operands i..j when i < j.
\* ExprTexts: the words of `print` of every expression of up to
\* MaxOperands operands out of 3 and 10 with at most one pair of
\* parentheses.
ExprTexts ==
    LET ExprWords(ns, ops, i, j) ==
          Concat([k \in 1..Len(ns) |->
                    (IF k = i /\ i < j THEN <<"(">> ELSE <<>>)
                      \o <<ToString(ns[k])>>
                      \o (IF k = j /\ i < j THEN <<")">> ELSE <<>>)
                      \o (IF k < Len(ns) THEN <<ops[k]>> ELSE <<>>)])
    IN
    UNION { { <<"print">> \o ExprWords(ns, ops, i, j) :
                ns \in [1..m -> {3, 10}],
                ops \in [1..(m - 1) -> {"+", "-", "*", "/"}],
                i \in 1..m, j \in 1..m } : m \in 1..MaxOperands }

\* Assignments whose target is a NUMBER, a STRING, the AS token or a
\* bracket, and texts whose second token is not ASSIGN.
NonIdentifierTargetTexts ==
    { Words(<<"5", "=", "3">>),
      <<Quoted("k")>> \o Words(<<"=", "1">>),
      Words(<<"as", "=", "1">>),
      Words(<<"]", "=", "2">>) }
MissingAssignTexts ==
    { Words(<<"v">>), Words(<<"v", "5">>), Words(<<"5", "3">>), Words(<<"v", "print", "v">>) }

\* Texts that end in the middle of a statement.
TruncatedTexts ==
    { Words(<<"maketable">>),
      Words(<<"maketable", "T">>),
      Words(<<"maketable", "T", "[">>),
      Words(<<"maketable", "T", "[", "k", ",">>),
      Words(<<"editrow", "T", "[", "1", ",">>),
      Words(<<"editcell", "T", "[">>) \o <<Quoted("v")>> \o Words(<<",", "1">>),
      Words(<<"print">>),
      Words(<<"print", "(", "1">>),
      Words(<<"print", "1", "+">>),
      Words(<<"query">>),
      Words(<<"query", "T", "k">>),
      Words(<<"query", "T", "k", ">">>),
      Words(<<"exportcsv", "T">>),
      Words(<<"importcsv">>) \o <<Quoted("d.csv")>>,
      Words(<<"importcsv">>) \o <<Quoted("d.csv")>> \o Words(<<"as">>),
      Words(<<"import">>),
      Words(<<"runfile">>),
      Words(<<"v", "=">>) }

\* maketable with the column list cols.
MakeTableText(cols) == Words(<<"maketable", "T", "[">> \o cols)

\* Column lists of comma-separated identifiers closed by `]`.
ListedColumnTexts ==
    { MakeTableText(<<"]">>),
      MakeTableText(<<"k", "]">>),
      MakeTableText(<<"k", ",", "v", "]">>) }

\* Column lists with a trailing comma, with two identifiers and no comma
\* between them, with an element that is no identifier, or with no `]`.
MalformedColumnTexts ==
    { MakeTableText(<<"k", ",", "]">>),
      MakeTableText(<<"k", ",", "v", ",", "]">>),
      MakeTableText(<<"k", "v", "]">>),
      MakeTableText(<<"5", "]">>),
      Words(<<"maketable", "T", "[">>) \o <<Quoted("k")>> \o Words(<<"]">>),
      MakeTableText(<<",", "k", "]">>),
      MakeTableText(<<"k", ",", ",", "v", "]">>),
      MakeTableText(<<"k">>),
      MakeTableText(<<"k", "print", "k">>) }

\* Queries whose table name is the last token of the text.
BareQueryTexts ==
    { Words(<<"query", "T">>), Words(<<"print", "3", "query", "T">>) }

\* Queries followed by the comparison `k > 1`, and by more after it.
ComparisonQueryTexts ==
    { Words(<<"query", "T", "k", ">", "1">>),
      Words(<<"query", "T", "k", ">", "1", "print", "3">>),
      Words(<<"query", "T", "k", ">", "1", "query", "T">>) }

\* Queries followed by tokens that do not start with a comparison: the
\* next statement, an assignment, an expression, a parenthesised
\* comparison.
FollowedQueryTexts ==
    { Words(<<"query", "T", "print", "3">>),
      Words(<<"query", "T", "maketable", "U", "[", "]">>),
      Words(<<"query", "T", "query", "T">>),
      Words(<<"query", "T", "v", "=", "5">>),
      Words(<<"query", "T", "k">>),
      Words(<<"query", "T", "k", "+", "1">>),
      Words(<<"query", "T", "(", "k", ">", "1", ")">>) }

\* The texts given to the parser, with what run() gets for them.
CompiledExprTexts == {Compiled(Words(ws)) : ws \in ExprTexts}
CompiledParserTexts ==
    { Compiled(code) : code \in
        NonIdentifierTargetTexts \cup MissingAssignTexts \cup TruncatedTexts
          \cup ListedColumnTexts \cup MalformedColumnTexts
          \cup BareQueryTexts \cup ComparisonQueryTexts \cup FollowedQueryTexts }

\* run() as the first call on a new interpreter.
RunFirst(c) == steps = 0 /\ Run(c)

NextParser ==
    \/ \E c \in CompiledExprTexts : RunFirst(c)
    \/ \E c \in CompiledParserTexts : RunFirst(c)
    \/ EvalAssignment
    \/ EvalPrint
    \/ EvalMakeTable
    \/ EvalQuery

SpecParser == Init /\ [][NextParser]_varlist

\* Source texts that create a table, set its rows and overwrite a cell of
\* the key column and of another column.
CompiledKeyTexts ==
    { Compiled(code) : code \in {
      Words(<<"maketable", "T", "[", "k", ",", "v", "]">>),
      Words(<<"editrow", "T", "[", "1", ",", "7", "]">>),
      Words(<<"editrow", "T", "[", "2", ",", "8", "]">>),
      Words(<<"editrow", "T", "[", "1", ",", "8", "]">>),
      Words(<<"editcell", "T", "[">>) \o <<Quoted("v")>> \o Words(<<",", "1", ",", "9", "]">>),
      Words(<<"editcell", "T", "[">>) \o <<Quoted("k")>> \o Words(<<",", "2", ",", "1", "]">>) } }

\* run() on a text that edits a table.
RunEdit(c) == RunWithin(c, MaxKeySteps)

NextKeys ==
    \/ \E c \in CompiledKeyTexts : RunEdit(c)
    \/ EvalMakeTable
    \/ EvalEditRow
    \/ EvalEditCell

SpecKeys == Init /\ [][NextKeys]_varlist

\* The characters of the texts given to the lexer: two letters that spell
\* the keyword `as`, a digit, two operator characters of which `>=` and
\* `==` are made, a blank and a letter outside ASCII.
CharTexts == SeqsUpTo({"a", "s", "1", "=", ">", " ", OtherLetter}, MaxChars)

\* Lexer(code) for one of the texts.
InitLexer == InitInterpreter /\ \E code \in CharTexts : lexer = NewLexer(code)

\* lexer.tokenize()
TokenizeText ==
    /\ lexer.pos <= Len(lexer.code)
    /\ lexer.exc = <<>>
    /\ lexer' = TokenizeFrom(lexer)
    /\ UNCHANGED <<vars, heap, out, should_exit, call_stack, current_file, disk,
                 pc, pending, error, position, last, steps>>

NextLexer == TokenizeText

SpecLexer == InitLexer /\ [][NextLexer]_varlist

(***************************************************************************)
(* The Environment as the specification describes it: every name with its  *)
(* scalar, or with the columns and rows of its table.                      *)
(***************************************************************************)
EnvOf(vs, hp) == [n \in DOMAIN vs |-> IF IsRef(vs[n]) THEN hp[vs[n].r] ELSE vs[n]]
Env == EnvOf(vars, heap)
PreEnv == EnvOf(last.pre.vars, last.pre.heap)

IsTable(env, n) == n \in DOMAIN env /\ "columns" \in DOMAIN env[n]

\* The statement visited last, and how it ended.
Visited(kind) == last.stmt.node = kind
Succeeded == last.exc = <<>>

\* The values of the argument list of the last statement, in the
\* Environment it was visited in.
LastValues == VisitAll(last.pre.vars, last.stmt.values)

\* Rows of a table whose first field is the key.
KeyRows(rows, key) == {i \in 1..Len(rows) : Len(rows[i]) > 0 /\ rows[i][1] = key}
Min(set) == CHOOSE i \in set : \A j \in set : i <= j

\* The upsert of the specification on a sequence of rows.
Upsert(rows, v) ==
    IF KeyRows(rows, v[1]) # {}
    THEN [rows EXCEPT ![Min(KeyRows(rows, v[1]))] = v]
    ELSE Append(rows, v)

\* An EditRow on a table with c >= 1 columns was given c values.
EditRowApplies ==
    /\ Visited("EditRow")
    /\ IsTable(PreEnv, last.stmt.table_name)
    /\ LastValues.ok
    /\ Len(LastValues.vs) = Len(PreEnv[last.stmt.table_name].columns)
    /\ Len(LastValues.vs) > 0

\* C1: EditRow is an upsert keyed on the first field: on a table with c
\* columns and c values v, the first row whose first field equals v[0] is
\* replaced by v at the same index, or else v is appended as the last row;
\* every other row, the row order and the columns are unchanged.
C1_EditRowIsUpsert ==
    EditRowApplies =>
       LET T == last.stmt.table_name IN
       /\ Succeeded
       /\ IsTable(Env, T)
       /\ Env[T].columns = PreEnv[T].columns
       /\ Env[T].data = Upsert(PreEnv[T].data, LastValues.vs)

\* C2: RunAsFile is sandboxed: after a RunAsFile statement completes
\* successfully the caller's Environment (names, scalars, columns and rows
\* of every table) is the Environment just before the statement.
C2_RunAsFileSandboxed ==
    (Visited("RunAsFile") /\ Succeeded) => Env = PreEnv

\* C3: Query never leaks column bindings: after a Query statement, whether
\* it succeeded or its condition raised on some row, every name has the
\* value it had before and no name was added.
C3_QueryLeaksNoBinding ==
    Visited("Query") =>
       /\ DOMAIN vars = DOMAIN last.pre.vars
       /\ vars = last.pre.vars
       /\ Env = PreEnv

\* A Query whose condition raised on a later row, after an earlier row had
\* been bound, with a global named like a column and a column name unbound.
C3_Witness ==
    /\ Visited("Query")
    /\ ~Succeeded
    /\ last.stmt.condition # NoCondition
    /\ IsTable(PreEnv, "T")
    /\ Len(PreEnv["T"].data) >= 2
    /\ Len(PreEnv["T"].data[1]) = 2
    /\ "v" \in DOMAIN vars
    /\ "k" \notin DOMAIN vars

\* The last statement ran a file that includes itself: its statements up
\* to an `import` or `runfile` of the file itself only create tables.
IncludesItself ==
    /\ Visited("RunAsFile")
    /\ last.pre.call_stack = <<>>
    /\ last.stmt.filename \in DOMAIN last.files
    /\ LET file == last.files[last.stmt.filename] IN
       /\ file.syntax_ok
       /\ \E j \in 1..Len(file.statements) :
             /\ file.statements[j].node \in {"Import", "RunAsFile"}
             /\ file.statements[j].filename = last.stmt.filename
             /\ \A i \in 1..(j - 1) : file.statements[i].node = "MakeTable"

CircularRaised ==
    /\ last.exc # <<>>
    /\ last.exc[Len(last.exc)] \in {"RuntimeError: Circular import detected",
                              "RuntimeError: Circular execution detected"}

\* C4: circular inclusion is detected before it mutates anything: when
\* running a file leads to an import or runfile of that same file, a
\* circular-import / circular-execution error is raised and the
\* Environment the caller sees afterwards holds no table mutation of the
\* cyclic branch.
C4_CircularInclusionMutatesNothing ==
    IncludesItself => (CircularRaised /\ Env = PreEnv)

\* An EditCell on an existing table with a valid column name and a key no
\* row has.
EditCellArgs == VisitAll(last.pre.vars,
                         <<last.stmt.column_expr, last.stmt.row_id_expr, last.stmt.value_expr>>)
EditCellOnMissingKey ==
    /\ Visited("EditCell")
    /\ IsTable(PreEnv, last.stmt.table_name)
    /\ EditCellArgs.ok
    /\ IsStr(EditCellArgs.vs[1])
    /\ \E j \in 1..Len(PreEnv[last.stmt.table_name].columns) :
          PreEnv[last.stmt.table_name].columns[j] = EditCellArgs.vs[1].s
    /\ KeyRows(PreEnv[last.stmt.table_name].data, EditCellArgs.vs[2]) = {}

\* C5: EditCell never creates rows: with a valid column name and a key that
\* equals no row's first field it fails, and the table's columns, rows and
\* row count and every other binding are as before.
C5_EditCellNeverCreatesRows ==
    EditCellOnMissingKey =>
       /\ ~Succeeded
       /\ Env = PreEnv
       /\ vars = last.pre.vars
       /\ heap = last.pre.heap

C5_Witness ==
    /\ EditCellOnMissingKey
    /\ Len(PreEnv[last.stmt.table_name].data) >= 2

\* C6: EditRow is idempotent: evaluating a successful EditRow statement
\* once more right after it succeeds again and leaves the Environment as
\* the first evaluation left it, and when at most one row had the key
\* before, the table then has exactly one row with that key.
C6_EditRowIdempotent ==
    (Visited("EditRow") /\ Succeeded) =>
       LET T == last.stmt.table_name
           key == LastValues.vs[1]
           again == VisitEditRow(Self, last.stmt)
       IN  /\ ~Failed(again)
           /\ EnvOf(again.vars, again.heap) = Env
           /\ Cardinality(KeyRows(PreEnv[T].data, key)) <= 1 =>
                 Cardinality(KeyRows(EnvOf(again.vars, again.heap)[T].data, key)) = 1

\* An EditRow that appended its row to a table that had rows, none with
\* the key.
C6_Witness ==
    /\ Visited("EditRow")
    /\ Succeeded
    /\ PreEnv[last.stmt.table_name].data # <<>>
    /\ KeyRows(PreEnv[last.stmt.table_name].data, LastValues.vs[1]) = {}
    /\ Len(Env[last.stmt.table_name].data) = Len(PreEnv[last.stmt.table_name].data) + 1

\* The Environment a Query condition is evaluated in for one row: every
\* column name stands for the row's field, every other name for its
\* global value.
RowEnv(globals, columns, row) ==
    [n \in (DOMAIN globals) \cup {columns[i] : i \in 1..Len(columns)} |->
       IF \E i \in 1..Len(columns) : columns[i] = n
       THEN row[CHOOSE i \in 1..Len(columns) : columns[i] = n]
       ELSE globals[n]]

\* The rows a condition holds for, in table order.
Selected(globals, hp, tbl, condition) ==
    LET Holds(row) == VisitComparison(RowEnv(globals, tbl.columns, row), hp, condition).b
    IN  IF condition = NoCondition THEN tbl.data ELSE SelectSeq(tbl.data, Holds)

\* Every row of the table has one field per column, and no column name
\* is repeated.
WellFormed(tbl) ==
    /\ \A i \in 1..Len(tbl.data) : Len(tbl.data[i]) = Len(tbl.columns)
    /\ \A i, j \in 1..Len(tbl.columns) : tbl.columns[i] = tbl.columns[j] => i = j

RECURSIVE ApplyDefinitions(_, _)
ApplyDefinitions(st, stmts) ==
    IF stmts = <<>> THEN st
    ELSE LET s == Head(stmts) IN
         ApplyDefinitions(IF s.node = "MakeTable" THEN VisitMakeTable(st, s)
                          ELSE IF s.node = "EditRow" THEN VisitEditRow(st, s)
                          ELSE st,
                          Tail(stmts))

ImportedFile == last.files[last.stmt.filename].statements

\* C8: after a successful import the Environment is the one obtained by
\* applying, in file order, exactly the MakeTable and EditRow statements
\* of the file to the Environment before; the other statements of the file
\* change neither the Environment nor the termination flag nor the disk,
\* and the only output is the line that reports the import.
C8_ImportEvaluatesOnlyTableDefinitions ==
    (Visited("Import") /\ Succeeded) =>
       LET expected == ApplyDefinitions(last.pre, ImportedFile) IN
       /\ Env = EnvOf(expected.vars, expected.heap)
       /\ out = Append(last.pre.out,
                       [line |-> "Imported tables", filename |-> last.stmt.filename])
       /\ should_exit = last.pre.should_exit
       /\ disk = last.pre.disk
       /\ call_stack = last.pre.call_stack
       /\ current_file = last.pre.current_file

\* A successful import of a file with an EditRow that changed the caller's
\* table and with an Assignment and a Print that were left out.
C8_Witness ==
    /\ Visited("Import")
    /\ Succeeded
    /\ Env # PreEnv
    /\ \E i \in 1..Len(ImportedFile) : ImportedFile[i].node = "EditRow"
    /\ \E i \in 1..Len(ImportedFile) : ImportedFile[i].node = "Assignment"
    /\ \E i \in 1..Len(ImportedFile) : ImportedFile[i].node = "Print"
    /\ "v" \notin DOMAIN vars

\* C9: run evaluates the statements in source order; when a statement
\* fails the statements after it are never evaluated, the one exception
\* reaches the caller, and what the statements before it did to the
\* Environment and wrote to the output is still there.
C9_RunStopsAtFirstFailure ==
    /\ pc = "run" => (pending # <<>> /\ pending = last.rest /\ Succeeded /\ error = <<>>)
    /\ (last.stmt # NoStmt /\ Succeeded /\ pc # "exited") => pending = last.rest
    /\ (last.stmt # NoStmt /\ ~Succeeded) =>
          /\ pc # "run"
          /\ pending = <<>>
          /\ error = last.exc
          /\ Len(out) >= Len(last.pre.out)
          /\ SubSeq(out, 1, Len(last.pre.out)) = last.pre.out
          /\ last.stmt.node \notin {"Import", "RunAsFile"} => Env = PreEnv

\* The second of three statements failed after the first had created a
\* table, with a statement left to evaluate.
C9_Witness ==
    /\ last.stmt # NoStmt
    /\ ~Succeeded
    /\ position = 2
    /\ last.rest # <<>>
    /\ IsTable(Env, "T")
    /\ pc = "prompt"

\* C10: a failing statement has no partial effect: when an Assignment,
\* EditRow, EditCell, Query, ImportCSV, import or runfile statement fails,
\* also midway through the program of the file it names, the Environment
\* is the one just before the statement.
C10_FailingStatementHasNoEffect ==
    (/\ last.stmt.node \in {"Assignment", "EditRow", "EditCell", "Query",
                            "ImportCSV", "Import", "RunAsFile"}
     /\ ~Succeeded) => Env = PreEnv

\* C11: row-arity invariant: in every Environment reached by MakeTable,
\* EditRow, EditCell, ImportCSV, import, runfile and Assignment statements,
\* every row of every table has as many fields as the table has columns.
C11_RowArity ==
    \A n \in DOMAIN Env :
       IsTable(Env, n) =>
          \A i \in 1..Len(Env[n].data) : Len(Env[n].data[i]) = Len(Env[n].columns)

\* C12: RunAsFile restores the Environment on the failure path: when the
\* nested program of a runfile fails to scan, to parse or to evaluate, the
\* Environment after the statement is the snapshot taken on entry.
C12_RunAsFileRestoresOnFailure ==
    (Visited("RunAsFile") /\ ~Succeeded) => Env = PreEnv

\* C13: after a runfile statement completes successfully the termination
\* flag is set and nothing further is processed: no statement after it in
\* the same source text is evaluated and the driver reads no further input.
C13_NothingAfterRunAsFile ==
    /\ (Visited("RunAsFile") /\ Succeeded) => (should_exit /\ pc = "exited")
    /\ last.stmt # NoStmt => ~last.pre.should_exit

\* C14: column-uniqueness invariant: in every reachable Environment the
\* column names of each table are pairwise distinct, whether a MakeTable
\* column list or a CSV header created the table.
C14_ColumnsUnique ==
    \A n \in DOMAIN Env :
       IsTable(Env, n) =>
          \A i, j \in 1..Len(Env[n].columns) :
             Env[n].columns[i] = Env[n].columns[j] => i = j

\* The text of a field in canonical form: an integer literal, here a
\* decimal numeral with or without a leading zero, as the decimal numeral
\* without it; any other text as it is.
Canonical(text) ==
    IF \E n \in CoerceRange : text = ToString(n) \/ (n >= 0 /\ text = "0" \o ToString(n))
    THEN ToString(CHOOSE n \in CoerceRange :
                     text = ToString(n) \/ (n >= 0 /\ text = "0" \o ToString(n)))
    ELSE text

CanonicalRecords(records) ==
    [i \in 1..Len(records) |->
       IF i = 1 THEN records[1]
       ELSE [j \in 1..Len(records[i]) |-> Canonical(records[i][j])]]

Count(e, w, k) == Cardinality({x \in 1..(k - 1) : e[x] = w})
TopLevel(e, ws) == {k \in 1..Len(e) : e[k] \in ws /\ Count(e, "(", k) = Count(e, ")", k)}
Max(set) == CHOOSE i \in set : \A j \in set : j <= i
Abs(a) == IF a < 0 THEN 0 - a ELSE a

\* The quotient rounded toward negative infinity, b # 0.
FloorDiv(a, b) ==
    CHOOSE q \in (0 - Abs(a) - 1)..(Abs(a) + 1) :
       \/ b > 0 /\ q * b <= a /\ a < (q + 1) * b
       \/ b < 0 /\ q * b >= a /\ a > (q + 1) * b

RefApply(w, l, r) ==
    IF ~l.ok \/ ~r.ok THEN [ok |-> FALSE]
    ELSE CASE w = "+" -> [ok |-> TRUE, v |-> l.v + r.v]
           [] w = "-" -> [ok |-> TRUE, v |-> l.v - r.v]
           [] w = "*" -> [ok |-> TRUE, v |-> l.v * r.v]
           [] w = "/" -> IF r.v = 0 THEN [ok |-> FALSE]
                         ELSE [ok |-> TRUE, v |-> FloorDiv(l.v, r.v)]

RECURSIVE RefValue(_)
RefValue(e) ==
    LET Split(k) == RefApply(e[k], RefValue(SubSeq(e, 1, k - 1)),
                             RefValue(SubSeq(e, k + 1, Len(e))))
    IN  IF TopLevel(e, {"+", "-"}) # {} THEN Split(Max(TopLevel(e, {"+", "-"})))
        ELSE IF TopLevel(e, {"*", "/"}) # {} THEN Split(Max(TopLevel(e, {"*", "/"})))
        ELSE IF e[1] = "(" THEN RefValue(SubSeq(e, 2, Len(e) - 1))
        ELSE [ok |-> TRUE, v |-> IntOf(e[1])]

\* The source text is one of ExprTexts.
IsExprText(code) ==
    /\ \A k \in 1..Len(code) : DOMAIN code[k] = {"word"}
    /\ [k \in 1..Len(code) |-> code[k].word] \in ExprTexts

\* The words after `print` in a text of ExprTexts.
ExprOf(code) == [k \in 1..(Len(code) - 1) |-> code[k + 1].word]

\* C16: expression evaluation over integers agrees with the reference
\* grammar: `*` and `/` bind tighter than `+` and `-`, operators of equal
\* precedence associate to the left, parentheses override both, and `/`
\* is floor division; a division by zero raises.
C16_ExpressionEvaluation ==
    /\ (IsExprText(last.code) /\ last.stmt = NoStmt) => (error = <<>> /\ pc = "run")
    /\ (IsExprText(last.code) /\ Visited("Print")) =>
          LET ref == RefValue(ExprOf(last.code)) IN
          IF ref.ok
          THEN Succeeded /\ out = <<[line |-> "print", value |-> I(ref.v)]>>
          ELSE last.exc = <<"ZeroDivisionError">> /\ out = <<>>

\* `print ( 3 - 10 ) / 3` printed -3: parentheses around a difference, and
\* a negative quotient rounded toward negative infinity.
C16_Witness ==
    /\ last.code = Words(<<"print", "(", "3", "-", "10", ")", "/", "3">>)
    /\ Visited("Print")
    /\ out = <<[line |-> "print", value |-> I(-3)]>>

\* C17: a successful EditCell on T with column name c and key k overwrites
\* exactly one field, the field at the index of c in the first row whose
\* first field equals k; the other fields of the row, the other rows,
\* their order and count, T's columns and every other binding are as
\* before.
C17_EditCellFrame ==
    (Visited("EditCell") /\ Succeeded) =>
       LET T == last.stmt.table_name
           i == Min(KeyRows(PreEnv[T].data, EditCellArgs.vs[2]))
           j == IndexOf(PreEnv[T].columns, EditCellArgs.vs[1].s)
       IN  Env = [PreEnv EXCEPT ![T].data[i][j] = EditCellArgs.vs[3]]

\* C18: run scans and parses the whole source text before it evaluates a
\* statement: when the lexer or the parser rejects the text, even in its
\* last statement, no statement is evaluated, and the Environment, the
\* output and the termination flag are as before.
C18_RejectedTextEvaluatesNothing ==
    last.code \in RejectedTexts =>
       /\ last.stmt = NoStmt
       /\ position = 0
       /\ error # <<>>
       /\ pending = <<>>
       /\ pc # "run"
       /\ Env = PreEnv
       /\ vars = last.pre.vars
       /\ heap = last.pre.heap
       /\ out = <<>>
       /\ should_exit = last.pre.should_exit
       /\ disk = last.pre.disk

\* A text whose first statement would create T and whose last statement is
\* cut short was rejected by an interpreter that had a binding.
C18_Witness ==
    /\ last.code = Words(<<"maketable", "T", "[", "k", ",", "v", "]", "print">>)
    /\ error # <<>>
    /\ "v" \in DOMAIN vars
    /\ "T" \notin DOMAIN vars

\* The text given to run() was rejected with a SyntaxError.
RejectedWithSyntaxError ==
    /\ last.stmt = NoStmt
    /\ pc # "run"
    /\ error = <<"SyntaxError">>

\* C19: assignment parsing rejects a non-identifier target: a statement
\* whose first token is no statement keyword is parsed as an assignment,
\* and parsing fails with a SyntaxError when that token is not an
\* IDENTIFIER or the token after it is not ASSIGN.
C19_AssignmentTargetIsIdentifier ==
    last.code \in (NonIdentifierTargetTexts \cup MissingAssignTexts) =>
       RejectedWithSyntaxError

\* C20: Parser.parse returns a Program or fails with a SyntaxError; a token
\* sequence that ends in the middle of a statement fails with a
\* SyntaxError and with no other kind of fault.
C20_ParserFailsWithSyntaxErrorOnly ==
    /\ last.code \in TruncatedTexts => RejectedWithSyntaxError
    /\ (last.code # <<>> /\ last.stmt = NoStmt) => error \in {<<>>, <<"SyntaxError">>}

\* The parser rejected the text given to run(): no statement was evaluated.
RejectedByParser ==
    /\ last.stmt = NoStmt
    /\ pc # "run"
    /\ error # <<>>

\* C21: the column list of maketable is a comma-separated list of zero or
\* more identifiers closed by `]`: such a list parses, and a list with a
\* trailing comma, with two identifiers not separated by a comma, with an
\* element that is no identifier, or with no `]` is a parse error.
C21_ColumnListSyntax ==
    /\ last.code \in MalformedColumnTexts => RejectedByParser
    /\ (last.code \in ListedColumnTexts /\ last.stmt = NoStmt) => (error = <<>> /\ pc = "run")

\* The text of the last run() ends with `query` and a table name.
EndsWithBareQuery ==
    /\ Len(last.code) >= 2
    /\ last.code[Len(last.code) - 1] = Word("query")
    /\ last.code[Len(last.code)] = Word("T")

\* C22: the condition of a query is optional only at the end of the input:
\* parse_query produces a Query with no condition exactly when the table
\* name is the last token of the source; when a token follows the table
\* name, the tokens are parsed as the one comparison of the query, and the
\* parse fails when they do not start with a comparison.
C22_QueryConditionOnlyAtEnd ==
    /\ (last.code \in BareQueryTexts /\ last.stmt = NoStmt) =>
          /\ error = <<>>
          /\ last.rest[Len(last.rest)] = QueryNode("T", NoCondition)
    /\ (last.code \in ComparisonQueryTexts /\ last.stmt = NoStmt) =>
          /\ error = <<>>
          /\ last.rest[1] = QueryNode("T", ComparisonOpNode(IdentifierNode("k"), "GREATER",
                                                           NumberNode(1)))
    /\ last.code \in FollowedQueryTexts => RejectedByParser
    /\ last.stmt = NoStmt =>
          \A k \in 1..Len(last.rest) :
             (last.rest[k].node = "Query" /\ last.rest[k].condition = NoCondition) =>
                (k = Len(last.rest) /\ EndsWithBareQuery)

\* `print 3 query T`: the query at the end of the text was parsed with no
\* condition and has been visited.
C22_Witness ==
    /\ last.code = Words(<<"print", "3", "query", "T">>)
    /\ Visited("Query")
    /\ last.stmt.condition = NoCondition
    /\ last.rest = <<>>

\* The operation e, an arithmetic operation or a comparison, has an operand
\* that is an identifier with no binding among the names `bound`.
HasUnboundOperand(e, bound) ==
    /\ e.node \in {"BinaryOp", "ComparisonOp"}
    /\ \/ e.left.node = "Identifier" /\ e.left.name \notin bound
       \/ e.right.node = "Identifier" /\ e.right.name \notin bound

\* The names bound while the condition of a Query is evaluated for a row.
RowNames(globals, columns, row) ==
    (DOMAIN globals) \cup {columns[i] : i \in 1..Min({Len(columns), Len(row)})}

\* C23: an arithmetic operation or a comparison with an operand that is an
\* unbound identifier raises a runtime fault and yields no value: an
\* Assignment of such an operation stores nothing, and a Query whose
\* condition is such a comparison on its first row fails and prints
\* nothing.
C23_UnboundOperandFaults ==
    /\ (Visited("Assignment") /\ HasUnboundOperand(last.stmt.expr, DOMAIN last.pre.vars)) =>
          (~Succeeded /\ Env = PreEnv)
    /\ (/\ Visited("Query")
        /\ IsTable(PreEnv, last.stmt.table_name)
        /\ PreEnv[last.stmt.table_name].data # <<>>
        /\ HasUnboundOperand(last.stmt.condition,
                             RowNames(last.pre.vars, PreEnv[last.stmt.table_name].columns,
                                      PreEnv[last.stmt.table_name].data[1]))) =>
          (~Succeeded /\ out = last.pre.out)

\* tokenize() has returned the tokens of the text.
Tokenized == lexer.pos > Len(lexer.code) /\ lexer.exc = <<>>

KeywordTexts ==
    {"importcsv", "import", "as", "editcell", "print", "query", "maketable",
     "editrow", "exportcsv", "runfile"}

\* The operator of two characters that stands at position p of the text.
OperatorAt(p) ==
    /\ p < Len(lexer.code)
    /\ lexer.code[p] \in {">", "<", "=", "!"}
    /\ lexer.code[p + 1] = "="

NestingLeft == Len(call_stack) - Len(last.pre.call_stack)

\* C25: every run invocation terminates, the inclusion stack being the
\* guard: a target already on the stack is rejected before it is entered,
\* so the nesting depth of Include and RunAsFile evaluations never exceeds
\* the number of distinct files, and no evaluation runs into the recursion
\* limit of the host.
C25_NestingBoundedByFiles ==
    last.stmt.node \in {"Import", "RunAsFile"} =>
       /\ NestingLeft <= Cardinality(DOMAIN last.files)
       /\ \A i \in 1..Len(last.exc) : last.exc[i] # "RecursionError"

\* C26: the inclusion stack holds only files in progress: whenever run()
\* has returned, with or without an error, call_stack is empty and
\* current_file is the interactive context; so a statement typed at the
\* prompt, which no Include or RunAsFile encloses, is never rejected as
\* circular.
C26_StackHoldsOnlyFilesInProgress ==
    /\ pc \in {"prompt", "exited"} =>
          (call_stack = <<>> /\ current_file = Interactive)
    /\ (last.stmt.node \in {"Import", "RunAsFile"} /\ last.exc # <<>>) =>
          last.exc[1] \notin {"RuntimeError: Circular import detected",
                              "RuntimeError: Circular execution detected"}

\* C27: table bindings are independent of each other: an EditRow or an
\* EditCell on the name T changes only the value bound to T; the value
\* bound to every other name is as before, also when the other name was
\* bound by an assignment from T.
C27_BindingsIndependent ==
    last.stmt.node \in {"EditRow", "EditCell"} =>
       \A n \in (DOMAIN PreEnv) \ {last.stmt.table_name} :
          n \in DOMAIN Env /\ Env[n] = PreEnv[n]

\* No table of the Environment has two rows with equal first fields.
KeysUnique(env) ==
    \A n \in DOMAIN env :
       IsTable(env, n) =>
          \A i, j \in 1..Len(env[n].data) :
             (/\ Len(env[n].data[i]) > 0
              /\ Len(env[n].data[j]) > 0
              /\ env[n].data[i][1] = env[n].data[j][1]) => i = j

\* C28: in every Environment reached from the empty Environment by
\* MakeTable, EditRow and EditCell statements, no table has two rows with
\* equal first fields.
C28_KeysUnique == KeysUnique(Env)

\* C29: the termination flag is monotonic and tied to success: it is false
\* on a new interpreter, a statement turns it on only when that statement
\* is a runfile, no statement turns it off, and a run that ends in an error
\* leaves it as it was, so that main() never prompts with the flag set.
C29_ExitFlagTiedToSuccess ==
    /\ pc = "prompt" => ~should_exit
    /\ (last.stmt # NoStmt /\ should_exit /\ ~last.pre.should_exit)
          => Visited("RunAsFile")
    /\ (last.stmt # NoStmt /\ last.pre.should_exit) => should_exit
====
